---- MODULE Spec2Model ----
(***************************************************************************)
(* A model of the vanilla-slider carousel: the Slider class (slider.js and *)
(* its full-page twin) and the geometry helpers of util.js.                *)
(*                                                                         *)
(* Pixel values are integers.  The tolerance fraction is kept in           *)
(* hundredths (0.33 -> 33, 0.15 -> 15) and the test                        *)
(* `tolerance - Math.abs(xDiff) <= 0` is computed on both sides scaled by  *)
(* 100.  For integer widths and drags up to 2000 the IEEE double product   *)
(* width * 0.33 (width * 0.15) lies on the same side of every integer as   *)
(* the exact product, and equals it when the exact product is an integer,  *)
(* so the scaled integer comparison is the comparison the code performs.   *)
(***************************************************************************)
EXTENDS Integers, Sequences, FiniteSets, TLC

\* ---------------------------------------------------------------- bounds
MaxSlides == 3        \* most children the container has
MaxTimers == 2        \* most deferred styling callbacks pending at once
MaxD      == 34       \* helper sweep: |xDiff| <= MaxD
MaxW      == 100      \* helper sweep: 0 <= width <= MaxW
MaxN      == 3        \* helper sweep: 0 <= index <= MaxN

\* ------------------------------------------------------- input domains
Variants == {"slider", "fullpage"}
Widths   == {100, 200}             \* widths the parent / body can take
Xs       == {0, 15, 48}            \* clientX of pointer samples
Ys       == {0}                    \* clientY of pointer samples
Samples  == Xs \X Ys
Ns       == (0 - 1) .. MaxSlides   \* arguments of updateIndex
Undefined == 0 - 1                 \* el.children[n] when there is no such child

VARIABLES
  phase,        \* "new" before the constructor ran, "ready" after
  variant,      \* which of the two Slider implementations
  slidesCount,  \* state.slidesCount = el.children.length
  width,        \* getBoundingClientRect().width of the parent / body
  slideWidth,   \* style.width given to every slide
  active,       \* state.active
  diffX,        \* state.diffX
  touchDown,    \* this.touchDown
  touchOrigin,  \* closure variable touchOrigin
  transform,    \* el.style.transform, the X translation in px
  touchClass,   \* el carries the class 'touch'
  cssClass,     \* per slide: "none", "in-view" or "not-in-view"
  timers,       \* number of pending setTimeout callbacks
  emitted,      \* notifications emitted by the last operation, in order
  last,         \* the last operation, its argument, and for handleTouchEnd
                \* the fields it found
  gesture,      \* how the gesture in progress began and its last sample
  call,         \* helper sweep: the helper call under test
  ret           \* helper sweep: its result

slider  == <<phase, variant, slidesCount, width, slideWidth, active, diffX,
             touchDown, touchOrigin, transform, touchClass, cssClass, timers>>
history == <<emitted, last, gesture>>
sweep   == <<call, ret>>
vars    == <<slider, history, sweep>>

\* ---------------------------------------------------------------- helpers
Abs(x) == IF x < 0 THEN 0 - x ELSE x

\* the displacement without the sign flip
diffCoords_Unflipped(a, b) == << a[1] - b[1], a[2] - b[2] >>

diffCoords(a, b) == << (a[1] - b[1]) * (0 - 1), (a[2] - b[2]) * (0 - 1) >>

\* the offset pointing right instead of left
originForIndex_Positive(n, totalWidth) ==
  IF n = 0 THEN 0 ELSE totalWidth * n

originForIndex(n, totalWidth) ==
  IF n = 0 THEN 0 ELSE (0 - 1) * totalWidth * n

\* toleranceFr in hundredths
toleranceFr(v) == IF v = "slider" THEN 33 ELSE 15

\* a drag of exactly the tolerance does not commit
changeSlide_Strict(xDiff, totalWidth, v) ==
  IF xDiff = 0 THEN 0
  ELSE IF totalWidth * toleranceFr(v) - 100 * Abs(xDiff) >= 0 THEN 0
  ELSE IF xDiff < 0 THEN 1 ELSE 0 - 1

\* every non-zero drag commits
changeSlide_NoTolerance(xDiff, totalWidth, v) ==
  IF xDiff = 0 THEN 0 ELSE IF xDiff < 0 THEN 1 ELSE 0 - 1

changeSlide(xDiff, totalWidth, v) ==
  IF xDiff = 0 THEN 0
  ELSE LET isNegative    == xDiff < 0
           tolerance     == totalWidth * toleranceFr(v)
           overTolerance == tolerance - 100 * Abs(xDiff) <= 0
       IN  IF ~overTolerance THEN 0
           ELSE IF isNegative THEN 1 ELSE 0 - 1

\* el.children[n]: slides are named by their position
ElementAt(n) == IF n \in 0 .. (slidesCount - 1) THEN n ELSE Undefined

Notification(name, n) == [name |-> name, index |-> n, element |-> ElementAt(n)]

\* the upper limit off by one
updateIndex_OffByOne(n) ==
  IF n < 0 \/ n > slidesCount
  THEN [active |-> active, emits |-> << >>]
  ELSE [active |-> n, emits |-> << Notification("change", n) >>]

\* the lower limit missing
updateIndex_NoLowerLimit(n) ==
  IF n >= slidesCount
  THEN [active |-> active, emits |-> << >>]
  ELSE [active |-> n, emits |-> << Notification("change", n) >>]

\* the notification carries the previous index
updateIndex_StaleIndex(n) ==
  IF n < 0 \/ n >= slidesCount
  THEN [active |-> active, emits |-> << >>]
  ELSE [active |-> n, emits |-> << Notification("change", active) >>]

\* an index outside the limits is still announced
updateIndex_LoudReject(n) ==
  IF n < 0 \/ n >= slidesCount
  THEN [active |-> active, emits |-> << Notification("change", n) >>]
  ELSE [active |-> n, emits |-> << Notification("change", n) >>]

\* the index changes without a notification
updateIndex_Silent(n) ==
  IF n < 0 \/ n >= slidesCount
  THEN [active |-> active, emits |-> << >>]
  ELSE [active |-> n, emits |-> << >>]

\* updateIndex(n): the new state.active and what it emits
updateIndex(n) ==
  IF n < 0 \/ n >= slidesCount
  THEN [active |-> active, emits |-> << >>]
  ELSE [active |-> n, emits |-> << Notification("change", n) >>]

\* the styling is applied during a touch too
cssActiveClass_Unguarded(index, td, cls) ==
  [i \in DOMAIN cls |-> IF index = i THEN "in-view" ELSE "not-in-view"]

\* the first slide is styled in view whatever the index
cssActiveClass_First(index, td, cls) ==
  IF td THEN cls
  ELSE [i \in DOMAIN cls |-> IF 0 = i THEN "in-view" ELSE "not-in-view"]

\* the styling is never applied
cssActiveClass_Never(index, td, cls) == cls

\* _cssActiveClass(index) run with this.touchDown = td on the styling cls
cssActiveClass(index, td, cls) ==
  IF td THEN cls
  ELSE [i \in DOMAIN cls |-> IF index = i THEN "in-view" ELSE "not-in-view"]

NoGesture == [fromIdle |-> FALSE, sampled |-> FALSE, x |-> 0]
NoWas     == [active |-> 0, diffX |-> 0, touchDown |-> FALSE,
              fromIdle |-> FALSE, sampled |-> FALSE, o |-> 0, x |-> 0,
              prevOp |-> "none"]
Was       == [active |-> active, diffX |-> diffX, touchDown |-> touchDown,
              fromIdle |-> gesture.fromIdle, sampled |-> gesture.sampled,
              o |-> touchOrigin[1], x |-> gesture.x, prevOp |-> last.op]
Op(name, n) == [op |-> name, n |-> n, was |-> NoWas]
NoCall    == [fn |-> "none", a |-> 0, b |-> 0, v |-> "slider"]
NoRet     == [done |-> FALSE, val |-> 0]

\* ------------------------------------------------------------------ Init
\* The fields a Slider has before its constructor body has run.
Fresh ==
  /\ phase = "new"
  /\ slideWidth = 0
  /\ active = 0
  /\ diffX = 0
  /\ touchDown = FALSE
  /\ touchOrigin = <<0, 0>>
  /\ transform = 0
  /\ touchClass = FALSE
  /\ cssClass = [i \in 0 .. (slidesCount - 1) |-> "none"]
  /\ timers = 0
  /\ emitted = << >>
  /\ last = Op("none", 0)
  /\ gesture = NoGesture

Init ==
  /\ variant \in Variants
  /\ slidesCount \in 0 .. MaxSlides
  /\ width \in Widths
  /\ Fresh
  /\ call = NoCall
  /\ ret = NoRet

\* --------------------------------------------------------------- actions
\* new Slider(el)
Construct ==
  /\ phase = "new"
  /\ LET upd == updateIndex(0)
     IN  /\ active' = upd.active
         /\ emitted' = upd.emits \o << Notification("init", 0) >>
  /\ phase' = "ready"
  /\ touchDown' = FALSE
  /\ diffX' = 0
  /\ slideWidth' = width
  /\ cssClass' = cssActiveClass(0, FALSE, cssClass)
  /\ last' = Op("construct", 0)
  /\ gesture' = NoGesture
  /\ UNCHANGED <<variant, slidesCount, width, touchOrigin, transform,
                 touchClass, timers, sweep>>

\* slider.updateIndex(n) called by the host
SetActiveIndex(n) ==
  /\ phase = "ready"
  /\ LET upd == updateIndex(n)
     IN  /\ active' = upd.active
         /\ emitted' = upd.emits
  /\ last' = Op("setActiveIndex", n)
  /\ UNCHANGED <<phase, variant, slidesCount, width, slideWidth, diffX,
                 touchDown, touchOrigin, transform, touchClass, cssClass,
                 timers, gesture, sweep>>

\* handleTouchStart
BeginGesture(s) ==
  /\ phase = "ready"
  /\ touchDown' = TRUE
  /\ touchOrigin' = s
  /\ touchClass' = TRUE
  /\ emitted' = << Notification("touch", active) >>
  /\ last' = Op("beginGesture", 0)
  /\ gesture' = [fromIdle |-> ~touchDown, sampled |-> FALSE, x |-> 0]
  /\ UNCHANGED <<phase, variant, slidesCount, width, slideWidth, active,
                 diffX, transform, cssClass, timers, sweep>>

\* handleTouchMove without its touchDown test
UpdateGesture_NoGuard(s) ==
  /\ phase = "ready"
  /\ LET d == diffCoords(touchOrigin, s)[1]
     IN  /\ diffX' = d
         /\ transform' = IF d = 0 THEN transform
                         ELSE d + originForIndex(active, width)
         /\ gesture' = [gesture EXCEPT !.sampled = TRUE, !.x = s[1]]
  /\ emitted' = << >>
  /\ last' = Op("updateGesture", 0)
  /\ UNCHANGED <<phase, variant, slidesCount, width, slideWidth, active,
                 touchDown, touchOrigin, touchClass, cssClass, timers, sweep>>

\* handleTouchMove
UpdateGesture(s) ==
  /\ phase = "ready"
  /\ IF ~touchDown
     THEN UNCHANGED <<diffX, transform, gesture>>
     ELSE LET d == diffCoords(touchOrigin, s)[1]
          IN  /\ diffX' = d
              /\ transform' = IF d = 0 THEN transform
                              ELSE d + originForIndex(active, width)
              /\ gesture' = [gesture EXCEPT !.sampled = TRUE, !.x = s[1]]
  /\ emitted' = << >>
  /\ last' = Op("updateGesture", 0)
  /\ UNCHANGED <<phase, variant, slidesCount, width, slideWidth, active,
                 touchDown, touchOrigin, touchClass, cssClass, timers, sweep>>

\* handleTouchEnd without the reset of state.diffX
EndGesture_KeepsDrag ==
  /\ phase = "ready"
  /\ timers < MaxTimers
  /\ LET changeWeight == changeSlide(diffX, width, variant)
         upd          == updateIndex(active + changeWeight)
     IN  /\ active' = upd.active
         /\ emitted' = upd.emits
         /\ transform' = originForIndex(upd.active, width)
  /\ touchClass' = FALSE
  /\ timers' = timers + 1
  /\ touchDown' = FALSE
  /\ last' = [op |-> "endGesture", n |-> 0, was |-> Was]
  /\ gesture' = NoGesture
  /\ UNCHANGED <<phase, variant, slidesCount, width, slideWidth, diffX,
                 touchOrigin, cssClass, sweep>>

\* handleTouchEnd
EndGesture ==
  /\ phase = "ready"
  /\ timers < MaxTimers
  /\ LET changeWeight == changeSlide(diffX, width, variant)
         upd          == updateIndex(active + changeWeight)
     IN  /\ active' = upd.active
         /\ emitted' = upd.emits
         /\ transform' = originForIndex(upd.active, width)
  /\ touchClass' = FALSE
  /\ timers' = timers + 1
  /\ touchDown' = FALSE
  /\ diffX' = 0
  /\ last' = [op |-> "endGesture", n |-> 0, was |-> Was]
  /\ gesture' = NoGesture
  /\ UNCHANGED <<phase, variant, slidesCount, width, slideWidth,
                 touchOrigin, cssClass, sweep>>

\* the callback given to setTimeout by handleTouchEnd
FireTimer ==
  /\ timers > 0
  /\ timers' = timers - 1
  /\ cssClass' = cssActiveClass(active, touchDown, cssClass)
  /\ emitted' = << >>
  /\ last' = Op("fireTimer", 0)
  /\ UNCHANGED <<phase, variant, slidesCount, width, slideWidth, active,
                 diffX, touchDown, touchOrigin, transform, touchClass,
                 gesture, sweep>>

\* the viewport changes width and handleResize runs
Resize(w) ==
  /\ phase = "ready"
  /\ w # width
  /\ width' = w
  /\ slideWidth' = w
  /\ emitted' = << >>
  /\ last' = Op("resize", 0)
  /\ UNCHANGED <<phase, variant, slidesCount, active, diffX, touchDown,
                 touchOrigin, transform, touchClass, cssClass, timers,
                 gesture, sweep>>

Next ==
  \/ Construct
  \/ \E n \in Ns : SetActiveIndex(n)
  \/ \E s \in Samples : BeginGesture(s)
  \/ \E s \in Samples : UpdateGesture(s)
  \/ EndGesture
  \/ FireTimer
  \/ \E w \in Widths : Resize(w)

Spec == Init /\ [][Next]_vars

\* A timer set by setTimeout does fire: the callback is always enabled while
\* pending and the event loop runs it.
FairSpec == Spec /\ WF_vars(FireTimer)

\* The slider driven by gestures and resizes only: the host never calls
\* updateIndex itself.
GestureNext ==
  \/ Construct
  \/ \E s \in Samples : BeginGesture(s)
  \/ \E s \in Samples : UpdateGesture(s)
  \/ EndGesture
  \/ FireTimer
  \/ \E w \in Widths : Resize(w)

GestureSpec == Init /\ [][GestureNext]_vars

\* ------------------------------------------------------- helper sweep
\* The helpers applied to every argument of a bounded range.
SweepCalls ==
  [fn : {"changeSlide"}, a : (0 - MaxD) .. MaxD, b : 0 .. MaxW, v : Variants]
    \cup [fn : {"originForIndex"}, a : 0 .. MaxN, b : 0 .. MaxW, v : {"slider"}]

SweepInit ==
  /\ variant = "slider"
  /\ slidesCount = 1
  /\ width = 100
  /\ Fresh
  /\ call \in SweepCalls
  /\ ret = NoRet

ApplyChangeSlide ==
  /\ call.fn = "changeSlide"
  /\ ~ret.done
  /\ ret' = [done |-> TRUE, val |-> changeSlide(call.a, call.b, call.v)]
  /\ UNCHANGED <<slider, history, call>>

ApplyOriginForIndex ==
  /\ call.fn = "originForIndex"
  /\ ~ret.done
  /\ ret' = [done |-> TRUE, val |-> originForIndex(call.a, call.b)]
  /\ UNCHANGED <<slider, history, call>>

SweepNext == ApplyChangeSlide \/ ApplyOriginForIndex

SweepSpec == SweepInit /\ [][SweepNext]_vars

\* ================================================================ claims
Changes(q) == { i \in 1 .. Len(q) : q[i].name = "change" }
Tolerance100 == width * toleranceFr(variant)     \* 100 * tolerance
Ended == last.op = "endGesture"
FromIdle == last.was.touchDown /\ last.was.fromIdle

\* C1: a slider constructed over at least one slide always has
\* 0 <= activeIndex < slideCount.
C1_ActiveInRange ==
  (phase = "ready" /\ slidesCount >= 1) => (0 <= active /\ active < slidesCount)

\* a gesture has just been discarded at the last slide of several
C1_Witness ==
  /\ slidesCount >= 2
  /\ Ended /\ last.was.diffX < 0
  /\ 100 * Abs(last.was.diffX) >= Tolerance100
  /\ last.was.active = slidesCount - 1
  /\ active = slidesCount - 1

\* C2: setActiveIndex(n) with 0 <= n < slideCount sets activeIndex to n and
\* emits exactly one notification, a change with index n and the slide at n.
C2_SetInRange ==
  (last.op = "setActiveIndex" /\ 0 <= last.n /\ last.n < slidesCount)
    => /\ active = last.n
       /\ emitted = << [name |-> "change", index |-> last.n, element |-> last.n] >>

\* setActiveIndex moved the slider to its last slide, not the first
C2_Witness ==
  /\ last.op = "setActiveIndex"
  /\ last.n = slidesCount - 1 /\ last.n >= 1
  /\ active = last.n /\ Len(emitted) = 1

\* C3: setActiveIndex(n) with n < 0 or n >= slideCount changes none of
\* activeIndex, dragOffset, gestureActive and the track translation, and
\* emits nothing.
C3_SetOutOfRangeNoOp ==
  [][ \A n \in Ns :
        (SetActiveIndex(n) /\ (n < 0 \/ n >= slidesCount))
          => /\ UNCHANGED <<active, diffX, touchDown, transform>>
             /\ emitted' = << >> ]_vars

\* an out-of-range request arrived in the middle of a drag
C3_Witness ==
  /\ last.op = "setActiveIndex"
  /\ (last.n < 0 \/ last.n >= slidesCount)
  /\ slidesCount >= 1 /\ touchDown /\ diffX # 0 /\ emitted = << >>

\* C4 as claimed: construction over zero slides does not complete, so no
\* constructed slider has slideCount = 0.
C4_ZeroSlidesRejected == ~(phase = "ready" /\ slidesCount = 0)

\* C4 amended: construction over zero slides completes; the slider has
\* slideCount = 0 and activeIndex = 0, and the constructor emitted only the
\* init notification, with index 0 and no element.
C4_ZeroSlidesConstructed ==
  (last.op = "construct" /\ slidesCount = 0)
    => /\ phase = "ready"
       /\ active = 0
       /\ emitted = << [name |-> "init", index |-> 0, element |-> Undefined] >>

\* the constructor has just run over an empty container
C4_Witness == last.op = "construct" /\ slidesCount = 0 /\ phase = "ready"

\* C5: the second of two endGesture calls in a row does not change
\* activeIndex and emits no change notification.
C5_SecondEndSilent ==
  (Ended /\ last.was.prevOp = "endGesture")
    => (active = last.was.active /\ Changes(emitted) = {})

\* C6: ending a gesture begun from Idle at origin o whose last sample x has
\* abs(x - o) >= trackWidth * toleranceFraction advances by one when x < o
\* and a next slide exists, retreats by one when x > o and a previous slide
\* exists; either way it emits exactly one change, with the new index, and
\* leaves the track at the rest offset of the new index.
C6_CommitMovesOne ==
  (Ended /\ FromIdle /\ last.was.sampled
     /\ 100 * Abs(last.was.x - last.was.o) >= Tolerance100)
    => LET x == last.was.x
           o == last.was.o
           a == last.was.active
           moved == /\ emitted = << [name |-> "change", index |-> active,
                                     element |-> active] >>
                    /\ transform = 0 - (active * width)
       IN  /\ (x < o /\ a < slidesCount - 1) => (active = a + 1 /\ moved)
           /\ (x > o /\ a > 0) => (active = a - 1 /\ moved)

\* a leftward drag of exactly the tolerance advanced from the first slide
C6_Witness ==
  /\ Ended /\ FromIdle /\ last.was.sampled
  /\ last.was.x < last.was.o
  /\ 100 * (last.was.o - last.was.x) = Tolerance100
  /\ last.was.active = 0 /\ active = 1

\* C7: ending a gesture begun from Idle whose dragOffset has
\* abs(dragOffset) < trackWidth * toleranceFraction leaves activeIndex as it
\* was and the track at the rest offset of activeIndex.
C7_SnapBack ==
  (Ended /\ FromIdle /\ 100 * Abs(last.was.diffX) < Tolerance100)
    => /\ active = last.was.active
       /\ transform = 0 - (active * width)

\* a short drag on a slide other than the first snapped back
C7_Witness ==
  /\ Ended /\ FromIdle /\ last.was.sampled
  /\ last.was.diffX # 0
  /\ 100 * Abs(last.was.diffX) < Tolerance100
  /\ active >= 1 /\ active = last.was.active

\* C8: a decision to advance at the last slide, or to retreat at the first,
\* is discarded: activeIndex is unchanged, nothing is emitted, the track is
\* at the rest offset of activeIndex, dragOffset is 0 and gestureActive false.
C8_BoundaryDiscard ==
  LET d == last.was.diffX
      over == d # 0 /\ 100 * Abs(d) >= Tolerance100
  IN  (Ended /\ over
         /\ \/ d < 0 /\ last.was.active = slidesCount - 1
            \/ d > 0 /\ last.was.active = 0)
        => /\ active = last.was.active
           /\ emitted = << >>
           /\ transform = 0 - (active * width)
           /\ diffX = 0
           /\ touchDown = FALSE

\* a committed rightward drag on the first of several slides was discarded
C8_Witness ==
  /\ Ended /\ FromIdle /\ last.was.sampled
  /\ last.was.diffX > 0
  /\ 100 * last.was.diffX >= Tolerance100
  /\ last.was.active = 0 /\ slidesCount >= 2 /\ emitted = << >>

\* C9: changeSlide(d, w) is 0 when d = 0 or abs(d) < w*t, +1 when d < 0 and
\* abs(d) >= w*t, -1 when d > 0 and abs(d) >= w*t, and nothing else.
C9_Decision ==
  (ret.done /\ call.fn = "changeSlide")
    => LET d == call.a
           under == 100 * Abs(d) < call.b * toleranceFr(call.v)
       IN  /\ (d = 0 \/ under) => ret.val = 0
           /\ (d < 0 /\ ~under) => ret.val = 1
           /\ (d > 0 /\ ~under) => ret.val = 0 - 1
           /\ ret.val \in {0 - 1, 0, 1}

\* a leftward drag of exactly the tolerance was decided as an advance
C9_Witness ==
  /\ ret.done /\ call.fn = "changeSlide"
  /\ call.a < 0
  /\ 100 * Abs(call.a) = call.b * toleranceFr(call.v)
  /\ ret.val = 1

\* C10: originForIndex(0, w) = 0, originForIndex(n, w) = -n*w for n >= 0 and
\* w >= 0, and the offsets of n and n+1 differ by exactly w.
C10_RestOffset ==
  (ret.done /\ call.fn = "originForIndex")
    => /\ (call.a = 0 => ret.val = 0)
       /\ ret.val = 0 - (call.a * call.b)
       /\ ret.val - originForIndex(call.a + 1, call.b) = call.b

\* the offset of a later slide in a track of positive width
C10_Witness ==
  /\ ret.done /\ call.fn = "originForIndex"
  /\ call.a >= 2 /\ call.b > 0 /\ ret.val < 0

\* the styling that marks slide a, and no other, as in view
StyledFor(a) == [i \in DOMAIN cssClass |->
                   IF i = a THEN "in-view" ELSE "not-in-view"]
Styled == cssClass = StyledFor(active)

\* C11: updateGesture while gestureActive is false changes none of
\* dragOffset, activeIndex, gestureActive and the track translation, and
\* emits nothing, whatever the sample.
C11_UpdateIdleNoOp ==
  [][ \A s \in Samples :
        (UpdateGesture(s) /\ ~touchDown)
          => /\ UNCHANGED <<diffX, active, touchDown, transform>>
             /\ emitted' = << >> ]_vars

\* a sample arrived after a gesture had ended on a slide other than the first
C11_Witness ==
  /\ last.op = "updateGesture" /\ ~touchDown
  /\ active >= 1 /\ timers >= 1 /\ diffX = 0

\* C12: after every endGesture, committed, snapped back or discarded,
\* dragOffset = 0 and gestureActive = false.
C12_EndResets == Ended => (diffX = 0 /\ touchDown = FALSE)

\* a gesture that was active with a non-zero drag has just ended
C12_Witness ==
  /\ Ended /\ last.was.touchDown /\ last.was.diffX # 0
  /\ diffX = 0 /\ ~touchDown

\* C13: every step that gives activeIndex a new value emits exactly one
\* change notification carrying the new value, and no step of beginGesture,
\* updateGesture or the deferred styling callback changes activeIndex.
C13_IndexChangeAnnounced ==
  [][ /\ (active' # active)
         => emitted' = << [name |-> "change", index |-> active',
                           element |-> active'] >>
      /\ (last'.op \in {"beginGesture", "updateGesture", "fireTimer"})
         => active' = active ]_vars

\* a gesture moved the slider to another slide and announced it
C13_Witness ==
  /\ Ended /\ active # last.was.active
  /\ Len(emitted) = 1 /\ emitted[1].index = active

\* C14: while gestureActive is true no slide's in-view / not-in-view
\* styling changes; a deferred callback firing during a gesture applies
\* nothing.
C14_NoStylingWhileTouching ==
  [][ touchDown => cssClass' = cssClass ]_vars

\* a callback fired during a gesture and left the stale styling in place
C14_Witness ==
  /\ last.op = "fireTimer" /\ touchDown
  /\ slidesCount >= 2 /\ cssClass[active] = "not-in-view"

\* C15 as claimed: every deferred callback that fires restyles the slides by
\* the activeIndex current at that time, no guard skipping it.
C15_CallbackAlwaysStyles ==
  [][ FireTimer => cssClass' = StyledFor(active) ]_vars

\* C15 amended: every deferred callback fires whether or not a gesture has
\* begun since it was scheduled; when no gesture is active at that time it
\* restyles the slides by the activeIndex current at fire time, and when a
\* gesture is active it applies nothing.
C15_CallbackStylesUnlessTouching ==
  [][ FireTimer => cssClass' = IF touchDown THEN cssClass
                               ELSE StyledFor(active) ]_vars

\* a callback fired after a later gesture had begun, on a slider whose
\* styling no longer marks the active slide
C15_Witness ==
  /\ last.op = "fireTimer" /\ touchDown /\ gesture.fromIdle
  /\ active >= 1 /\ cssClass[0] = "in-view"

\* C16: after an endGesture, unless a beginGesture or a setActiveIndex
\* follows, eventually the slide at activeIndex is styled in-view and every
\* other slide not-in-view.
C16_EventuallyStyled ==
  [](Ended => <>(Styled \/ last.op \in {"beginGesture", "setActiveIndex"}))

\* the styling caught up with an index that a gesture had moved
C16_Witness ==
  /\ last.op = "fireTimer" /\ ~touchDown /\ timers = 0
  /\ active >= 1 /\ Styled

\* C17: a gesture that received no updateGesture sample between its
\* beginGesture and its endGesture does not change activeIndex.
C17_UnsampledGestureKeepsIndex ==
  (Ended /\ last.was.touchDown /\ ~last.was.sampled)
    => active = last.was.active

\* C18: whenever gestureActive is false and no deferred callback is pending,
\* exactly one slide is styled in-view, the slide at activeIndex.
C18_IdleStyled ==
  (phase = "ready" /\ slidesCount >= 1 /\ ~touchDown /\ timers = 0)
    => /\ cssClass[active] = "in-view"
       /\ Cardinality({i \in DOMAIN cssClass : cssClass[i] = "in-view"}) = 1

\* C19: after every updateGesture applied while gestureActive is true the
\* track translation is restOffset(activeIndex, trackWidth) + dragOffset.
C19_TrackFollowsDrag ==
  (last.op = "updateGesture" /\ touchDown)
    => transform = (0 - (active * width)) + diffX

\* C20: with gestures and resizes only, whenever gestureActive is false the
\* track translation is restOffset(activeIndex, trackWidth) for the current
\* trackWidth.
C20_IdleAtRest ==
  (phase = "ready" /\ ~touchDown) => transform = 0 - (active * width)

====
